---- MODULE Spec2Model ----
(***************************************************************************)
(* Model of src/app/page.tsx: the daily work report form, its local        *)
(* IndexedDB archive ("WorkReportsDB" / "reports"), the Dayjs <-> ISO      *)
(* string marshalling of reports, and the by-day filter of the past        *)
(* reports list.                                                           *)
(*                                                                         *)
(* Time is scaled: an instant is a number of milliseconds since the epoch, *)
(* a day has DayLen milliseconds, and the browser's local time is UTC plus *)
(* TzOffset milliseconds.                                                  *)
(***************************************************************************)
EXTENDS Integers, Sequences, FiniteSets, TLC

\* ---------------------------------------------------------------- bounds
MaxSaves == 2   \* generatePDF invocations that pass validation
MaxTasks == 3   \* length of report.tasks
MaxPast  == 2   \* reports of an archive left by earlier sessions
MaxCodecTasks == 2   \* tasks of a report given to the serializer
MaxClock == 2   \* largest value Date.now() returns
NumDays  == 3   \* calendar days covered by the instants
DayLen   == 2   \* milliseconds per day (scaled)
TzOffset == 1   \* local time = UTC + TzOffset (scaled milliseconds)

\* ------------------------------------------------------- program constants
DB_NAME    == "WorkReportsDB"
STORE_NAME == "reports"
DB_VERSION == 1

\* ----------------------------------------------------------------- values
NULL == [kind |-> "null"]

Dayjs(t) == [kind |-> "dayjs", ms |-> t]

Instants == 0 .. (NumDays * DayLen - 1)

Message(s) == [kind |-> "message", text |-> s]

MsgName  == Message("Veuillez remplir votre nom et prenom")
MsgTimes == Message("Veuillez remplir les heures d'arrivee et de depart")
MsgTasks == Message("Veuillez remplir toutes les informations de la tache")
MsgSave  == Message("Failed to save report offline")

EmptyTask == [startTime |-> NULL, endTime |-> NULL, description |-> "", problems |-> ""]

\* --------------------------------------------------- temporal value codec
\* A formatting that keeps the calendar day and drops the time of day.
toISOString_dateOnly(d) == [kind |-> "string", day |-> d.ms \div DayLen, time |-> 0]

\* Dayjs.toISOString(): the UTC calendar day and the time within that day.
toISOString(d) == [kind |-> "string", day |-> d.ms \div DayLen, time |-> d.ms % DayLen]

\* dayjs(isoString): the instant the UTC string denotes.
dayjs(s) == Dayjs(s.day * DayLen + s.time)

\* x?.toISOString() || null
encode(d) == IF d = NULL THEN NULL ELSE toISOString(d)

\* s ? dayjs(s) : null
decode(s) == IF s # NULL THEN dayjs(s) ELSE NULL

\* ------------------------------------------------------ report serializer
serializeTask(task) ==
  [f \in DOMAIN task \cup {"startTime", "endTime"} |->
     IF f = "startTime" THEN encode(task.startTime)
     ELSE IF f = "endTime" THEN encode(task.endTime)
     ELSE task[f]]

serializeReport(r) ==
  [f \in DOMAIN r |->
     IF f = "date" THEN toISOString(r.date)
     ELSE IF f = "arrivalTime" THEN encode(r.arrivalTime)
     ELSE IF f = "departureTime" THEN encode(r.departureTime)
     ELSE IF f = "tasks" THEN [k \in DOMAIN r.tasks |-> serializeTask(r.tasks[k])]
     ELSE r[f]]

deserializeTask(task) ==
  [f \in DOMAIN task \cup {"startTime", "endTime"} |->
     IF f = "startTime" THEN decode(task.startTime)
     ELSE IF f = "endTime" THEN decode(task.endTime)
     ELSE task[f]]

deserializeReport(s) ==
  [f \in DOMAIN s |->
     IF f = "date" THEN dayjs(s.date)
     ELSE IF f = "arrivalTime" THEN decode(s.arrivalTime)
     ELSE IF f = "departureTime" THEN decode(s.departureTime)
     ELSE IF f = "tasks" THEN [k \in DOMAIN s.tasks |-> deserializeTask(s.tasks[k])]
     ELSE s[f]]

\* { ...report, id: value }
WithId(r, value) == [f \in DOMAIN r \cup {"id"} |-> IF f = "id" THEN value ELSE r[f]]

\* ------------------------------------------------------ report query
\* Dayjs.startOf("day") and Dayjs.endOf("day"), in local time.
startOfDay(d) == Dayjs(d.ms - ((d.ms + TzOffset) % DayLen))

\* An end of day that reaches the first instant of the next day.
endOfDay_nextMidnight(d) == Dayjs(startOfDay(d).ms + DayLen)

endOfDay(d) == Dayjs(startOfDay(d).ms + DayLen - 1)

\* a.isSame(b, "day"): startOf("day") <= b <= endOf("day")
isSame(a, b) == startOfDay(a).ms <= b.ms /\ b.ms <= endOfDay(a).ms

\* pastReports.filter((r) => !searchDate || r.date.isSame(searchDate, "day"))
filterPastReports(reports, sd) ==
  LET Keep(r) == sd = NULL \/ isSame(r.date, sd)
  IN  SelectSeq(reports, Keep)

\* ------------------------------------------------------ form validation
\* validateReport without the test of a task's description.
validateReport_noDescription(r) ==
  IF r.firstName = "" \/ r.lastName = ""
  THEN [ok |-> FALSE, error |-> MsgName]
  ELSE IF r.arrivalTime = NULL \/ r.departureTime = NULL
  THEN [ok |-> FALSE, error |-> MsgTimes]
  ELSE IF \E k \in DOMAIN r.tasks :
            \/ r.tasks[k].startTime = NULL
            \/ r.tasks[k].endTime = NULL
  THEN [ok |-> FALSE, error |-> MsgTasks]
  ELSE [ok |-> TRUE, error |-> NULL]

\* validateReport(): the verdict and the value it gives setError.
validateReport(r) ==
  IF r.firstName = "" \/ r.lastName = ""
  THEN [ok |-> FALSE, error |-> MsgName]
  ELSE IF r.arrivalTime = NULL \/ r.departureTime = NULL
  THEN [ok |-> FALSE, error |-> MsgTimes]
  ELSE IF \E k \in DOMAIN r.tasks :
            \/ r.tasks[k].startTime = NULL
            \/ r.tasks[k].endTime = NULL
            \/ r.tasks[k].description = ""
  THEN [ok |-> FALSE, error |-> MsgTasks]
  ELSE [ok |-> TRUE, error |-> NULL]

\* ------------------------------------------------------ local store
\* db.createObjectStore(STORE_NAME, { keyPath: "id", autoIncrement: true })
createObjectStore(d) ==
  [d EXCEPT !.stores = @ \cup {STORE_NAME}, !.records = <<>>, !.created = @ + 1]

\* request.onupgradeneeded
onupgradeneeded(d) ==
  IF STORE_NAME \notin d.stores THEN createObjectStore(d) ELSE d

\* An open that runs the upgrade and creates the collection every time.
initDB_recreate(d) == [createObjectStore(d) EXCEPT !.version = DB_VERSION]

\* A successful indexedDB.open(DB_NAME, 1): the upgrade runs only when the
\* stored version is older than the requested one.
initDB(d) ==
  IF d.version < DB_VERSION
  THEN [onupgradeneeded(d) EXCEPT !.version = DB_VERSION]
  ELSE d

Keys(records) == {records[k].id : k \in DOMAIN records}

\* An object store keeps its records in ascending key order.
InsertByKey(records, rec) ==
  LET below == SelectSeq(records, LAMBDA x : x.id < rec.id)
      above == SelectSeq(records, LAMBDA x : x.id > rec.id)
  IN  below \o <<rec>> \o above

\* ------------------------------------------------------------------ state
VARIABLES
  report,       \* useState<Report>: the live report of the form
  error,        \* useState<string | null>
  pastReports,  \* useState<Report[]>
  searchDate,   \* useState<Dayjs | null>
  shown,        \* the past reports list as last rendered
  db,           \* the browser's WorkReportsDB database
  txQueue,      \* requests placed on the object store, oldest first
  calls,        \* generatePDF invocations that passed validation
  load,         \* the mount-time loadReports
  pdfs,         \* number of doc.save calls
  clock,        \* Date.now()
  wire,         \* a serialized report
  restored      \* the report read back from the serialized one

vars == <<report, error, pastReports, searchDate, shown, db, txQueue, calls,
          load, pdfs, clock, wire, restored>>

formVars  == <<report, error, searchDate>>
storeVars == <<db, txQueue, calls, load, pdfs>>
codecVars == <<wire, restored>>

InitReport ==
  [date |-> Dayjs(clock), firstName |-> "", lastName |-> "", arrivalTime |-> NULL,
   departureTime |-> NULL, tasks |-> <<EmptyTask>>, plannedTasks |-> ""]

\* The database of a browser that never ran the application, or one that did
\* and holds an empty collection.
InitDBs ==
  { [version |-> 0, stores |-> {}, records |-> <<>>, created |-> 0],
    [version |-> DB_VERSION, stores |-> {STORE_NAME}, records |-> <<>>, created |-> 0] }

\* The state after the component mounted: the form is empty and loadReports
\* waits for initDB.
Init ==
  /\ clock = 1
  /\ report = InitReport
  /\ error = NULL
  /\ pastReports = <<>>
  /\ searchDate = NULL
  /\ shown = <<>>
  /\ db \in InitDBs
  /\ txQueue = <<>>
  /\ calls = <<>>
  /\ load = "open"
  /\ pdfs = 0
  /\ wire = NULL
  /\ restored = NULL

\* The component re-renders after a state change and recomputes the list.
Render == shown' = filterPastReports(pastReports', searchDate')

\* ------------------------------------------------------------ form edits
\* setReport((prev) => ({ ...prev, [field]: value }))
SetField(field, value) ==
  /\ report' = [report EXCEPT ![field] = value]
  /\ UNCHANGED <<error, pastReports, searchDate, clock>>
  /\ UNCHANGED storeVars
  /\ UNCHANGED codecVars
  /\ Render

SetFirstName(v) == SetField("firstName", v)

SetLastName(v) == SetField("lastName", v)

SetArrivalTime(v) == SetField("arrivalTime", v)

SetDepartureTime(v) == SetField("departureTime", v)

SetPlannedTasks(v) == SetField("plannedTasks", v)

\* DatePicker onChange: date: newValue || dayjs()
SetDate(v) == SetField("date", IF v = NULL THEN Dayjs(clock) ELSE v)

\* prev.tasks.filter((_, i) => i !== index), from position k on
RECURSIVE DropIndex(_, _, _)
DropIndex(tasks, index, k) ==
  IF k > Len(tasks) THEN <<>>
  ELSE (IF k - 1 # index THEN <<tasks[k]>> ELSE <<>>) \o DropIndex(tasks, index, k + 1)

\* { ...task, [field]: value }
WithField(task, field, value) ==
  [f \in DOMAIN task \cup {field} |-> IF f = field THEN value ELSE task[f]]

addTaskTo(tasks) == tasks \o <<EmptyTask>>

\* A removal that counts the tasks from one.
removeTaskFrom_fromOne(tasks, index) == DropIndex(tasks, index - 1, 1)

removeTaskFrom(tasks, index) == DropIndex(tasks, index, 1)

updateTaskIn(tasks, index, field, value) ==
  [k \in DOMAIN tasks |->
     IF k - 1 = index THEN WithField(tasks[k], field, value) ELSE tasks[k]]

addTask ==
  /\ Len(report.tasks) < MaxTasks
  /\ SetField("tasks", addTaskTo(report.tasks))

removeTask(index) == SetField("tasks", removeTaskFrom(report.tasks, index))

updateTask(index, field, value) ==
  SetField("tasks", updateTaskIn(report.tasks, index, field, value))

\* DatePicker "Rechercher par date": onChange={setSearchDate}
SetSearchDate(v) ==
  /\ searchDate' = v
  /\ UNCHANGED <<report, error, pastReports, clock>>
  /\ UNCHANGED storeVars
  /\ UNCHANGED codecVars
  /\ Render

\* A row of the past reports list: onClick={() => setReport(r)}
SelectPastReport(k) ==
  /\ k \in DOMAIN shown
  /\ report' = shown[k]
  /\ UNCHANGED <<error, pastReports, searchDate, clock>>
  /\ UNCHANGED storeVars
  /\ UNCHANGED codecVars
  /\ Render

\* ------------------------------------------------------------ the clock
Tick ==
  /\ clock < MaxClock
  /\ clock' = clock + 1
  /\ UNCHANGED <<report, error, pastReports, searchDate, shown>>
  /\ UNCHANGED storeVars
  /\ UNCHANGED codecVars

\* Date.now() follows the system clock, which an adjustment can set back.
ClockSetBack ==
  /\ clock' \in 1 .. (clock - 1)
  /\ UNCHANGED <<report, error, pastReports, searchDate, shown>>
  /\ UNCHANGED storeVars
  /\ UNCHANGED codecVars

\* ------------------------------------------------------------ loadReports
\* await initDB() succeeds: the read-only transaction and store.getAll().
LoadOpened ==
  /\ load = "open"
  /\ db' = initDB(db)
  /\ txQueue' = Append(txQueue, [op |-> "getAll"])
  /\ load' = "getAll"
  /\ UNCHANGED <<report, error, pastReports, searchDate, shown, calls, pdfs, clock>>
  /\ UNCHANGED codecVars

\* await initDB() rejects: catch (error) { console.error(...) }
LoadOpenFailed ==
  /\ load = "open"
  /\ load' = "failed"
  /\ UNCHANGED <<report, error, pastReports, searchDate, shown, db, txQueue, calls, pdfs, clock>>
  /\ UNCHANGED codecVars

\* The store answers getAll: request.onsuccess maps the records through
\* deserializeReport and replaces pastReports.
LoadSucceeded ==
  /\ txQueue # <<>>
  /\ Head(txQueue).op = "getAll"
  /\ txQueue' = Tail(txQueue)
  /\ pastReports' = [k \in DOMAIN db.records |-> deserializeReport(db.records[k])]
  /\ load' = "done"
  /\ UNCHANGED <<report, error, searchDate, db, calls, pdfs, clock>>
  /\ UNCHANGED codecVars
  /\ Render

\* The getAll request errors: no onerror handler is registered.
LoadFailed ==
  /\ txQueue # <<>>
  /\ Head(txQueue).op = "getAll"
  /\ txQueue' = Tail(txQueue)
  /\ load' = "failed"
  /\ UNCHANGED <<report, error, pastReports, searchDate, shown, db, calls, pdfs, clock>>
  /\ UNCHANGED codecVars

\* ------------------------------------------------------------ generatePDF
\* The click on "Generer le PDF": validateReport, then the document is laid
\* out from the report of this render and the call waits for initDB.
GeneratePDF ==
  LET v == validateReport(report)
  IN  /\ error' = v.error
      /\ IF v.ok
         THEN /\ Len(calls) < MaxSaves
              /\ calls' = Append(calls, [pc |-> "open", report |-> report, id |-> 0,
                                         add |-> "none", appended |-> FALSE])
         ELSE calls' = calls
      /\ UNCHANGED <<report, pastReports, searchDate, shown, db, txQueue, load, pdfs, clock>>
      /\ UNCHANGED codecVars

\* The browser answers the open requests of one database in the order they
\* were made: loadReports asked at mount, then the calls in their order.
OpenIsNext(i) ==
  /\ load # "open"
  /\ \A j \in 1 .. (i - 1) : calls[j].pc # "open"

\* await initDB() succeeds.  The call places store.add in a read-write
\* transaction; store.add returns an IDBRequest, which is no promise, so the
\* await resumes the call in the same task: it appends to pastReports and
\* saves the document while the request is still queued.
GenOpened(i) ==
  /\ i \in DOMAIN calls
  /\ calls[i].pc = "open"
  /\ OpenIsNext(i)
  /\ LET reportToSave     == WithId(calls[i].report, clock)
         serializedReport == serializeReport(reportToSave)
     IN  /\ db' = initDB(db)
         /\ txQueue' = Append(txQueue, [op |-> "add", call |-> i, value |-> serializedReport])
         /\ pastReports' = Append(pastReports, deserializeReport(serializedReport))
         /\ calls' = [calls EXCEPT ![i] = [@ EXCEPT !.pc = "done", !.id = clock,
                                             !.add = "pending", !.appended = TRUE]]
  /\ pdfs' = pdfs + 1
  /\ UNCHANGED <<report, error, searchDate, load, clock>>
  /\ UNCHANGED codecVars
  /\ Render

\* A catch that gives up the export after setting the error.
GenOpenFailed_return(i) ==
  /\ i \in DOMAIN calls
  /\ calls[i].pc = "open"
  /\ OpenIsNext(i)
  /\ error' = MsgSave
  /\ calls' = [calls EXCEPT ![i] = [@ EXCEPT !.pc = "done"]]
  /\ UNCHANGED <<report, pastReports, searchDate, shown, db, txQueue, load, pdfs, clock>>
  /\ UNCHANGED codecVars

\* await initDB() rejects: the catch sets the error, then doc.save runs.
GenOpenFailed(i) ==
  /\ i \in DOMAIN calls
  /\ calls[i].pc = "open"
  /\ OpenIsNext(i)
  /\ error' = MsgSave
  /\ calls' = [calls EXCEPT ![i] = [@ EXCEPT !.pc = "done"]]
  /\ pdfs' = pdfs + 1
  /\ UNCHANGED <<report, pastReports, searchDate, shown, db, txQueue, load, clock>>
  /\ UNCHANGED codecVars

\* The store carries out the oldest add: the key is free and the record is
\* stored.  No handler of the application listens.
AddSucceeded ==
  /\ txQueue # <<>>
  /\ Head(txQueue).op = "add"
  /\ Head(txQueue).value.id \notin Keys(db.records)
  /\ db' = [db EXCEPT !.records = InsertByKey(@, Head(txQueue).value)]
  /\ calls' = [calls EXCEPT ![Head(txQueue).call] = [@ EXCEPT !.add = "success"]]
  /\ txQueue' = Tail(txQueue)
  /\ UNCHANGED <<report, error, pastReports, searchDate, shown, load, pdfs, clock>>
  /\ UNCHANGED codecVars

\* The oldest add errors (a ConstraintError when the key is taken, or the
\* transaction aborts, e.g. on quota): nothing is stored.  No handler of the
\* application listens.
AddFailed ==
  /\ txQueue # <<>>
  /\ Head(txQueue).op = "add"
  /\ calls' = [calls EXCEPT ![Head(txQueue).call] = [@ EXCEPT !.add = "error"]]
  /\ txQueue' = Tail(txQueue)
  /\ UNCHANGED <<report, error, pastReports, searchDate, shown, db, load, pdfs, clock>>
  /\ UNCHANGED codecVars

\* ------------------------------------------------------------ marshalling
CodecSerialize ==
  /\ wire = NULL
  /\ wire' = serializeReport(report)
  /\ UNCHANGED <<report, error, pastReports, searchDate, shown, clock, restored>>
  /\ UNCHANGED storeVars

CodecDeserialize ==
  /\ wire # NULL
  /\ restored = NULL
  /\ restored' = deserializeReport(wire)
  /\ UNCHANGED <<report, error, pastReports, searchDate, shown, clock, wire>>
  /\ UNCHANGED storeVars

\* ------------------------------------------------------------ inputs
FillNames == {"a"}

FillTimes == {Dayjs(1)}

FillTaskFields ==
  {<<"startTime", Dayjs(1)>>, <<"endTime", Dayjs(1)>>, <<"description", "d">>}

\* ------------------------------------------------- the application
\* The user fills in the form and exports; the archive is loaded and written.
Next ==
  \/ \E v \in FillNames : SetFirstName(v)
  \/ \E v \in FillNames : SetLastName(v)
  \/ \E v \in FillTimes : SetArrivalTime(v)
  \/ \E v \in FillTimes : SetDepartureTime(v)
  \/ \E fv \in FillTaskFields : updateTask(0, fv[1], fv[2])
  \/ \E k \in 1 .. MaxSaves : SelectPastReport(k)
  \/ GeneratePDF
  \/ \E i \in 1 .. MaxSaves : GenOpened(i)
  \/ \E i \in 1 .. MaxSaves : GenOpenFailed(i)
  \/ AddSucceeded
  \/ AddFailed
  \/ LoadOpened
  \/ LoadOpenFailed
  \/ LoadSucceeded
  \/ LoadFailed
  \/ Tick
  \/ ClockSetBack

Spec == Init /\ [][Next]_vars

\* ------------------------------------------------- exporting any form
\* Every content the form can hold with at most MaxTasks tasks.
SeqsUpTo(S, n) == UNION {[1 .. k -> S] : k \in 0 .. n}

FormTasks ==
  [startTime : {NULL, Dayjs(1)}, endTime : {NULL, Dayjs(1)},
   description : {"", "d"}, problems : {""}]

FormReports ==
  [date : {Dayjs(1)}, firstName : {"", "a"}, lastName : {"", "a"},
   arrivalTime : {NULL, Dayjs(1)}, departureTime : {NULL, Dayjs(1)},
   tasks : SeqsUpTo(FormTasks, MaxTasks), plannedTasks : {""}]

InitExport ==
  /\ clock = 1
  /\ report \in FormReports
  /\ error = NULL
  /\ pastReports = <<>>
  /\ searchDate = NULL
  /\ shown = <<>>
  /\ db \in {initDB(d) : d \in InitDBs}
  /\ txQueue = <<>>
  /\ calls = <<>>
  /\ load = "done"
  /\ pdfs = 0
  /\ wire = NULL
  /\ restored = NULL

\* The user exports the form as it stands, clearing or retyping the first
\* name between exports.
NextExport ==
  \/ \E v \in {"", "a"} : SetFirstName(v)
  \/ GeneratePDF
  \/ \E i \in 1 .. MaxSaves : GenOpened(i)
  \/ \E i \in 1 .. MaxSaves : GenOpenFailed(i)
  \/ AddSucceeded
  \/ AddFailed

SpecExport == InitExport /\ [][NextExport]_vars

\* The browser answers every open request with a success or an error event,
\* and the call waiting for it then resumes.
SpecExportFair ==
  SpecExport /\ WF_vars(\E i \in 1 .. MaxSaves : GenOpened(i) \/ GenOpenFailed(i))

\* ------------------------------------------------- an archive reloaded
\* A report exported by an earlier session on the instant t.
ArchivedReport(t) ==
  [date |-> Dayjs(t), firstName |-> "a", lastName |-> "a", arrivalTime |-> Dayjs(t),
   departureTime |-> Dayjs(t),
   tasks |-> <<[startTime |-> Dayjs(t), endTime |-> Dayjs(t), description |-> "d",
                problems |-> ""]>>,
   plannedTasks |-> ""]

\* The state after the component mounted and loadReports has read an archive
\* whose records, in key order, were exported on the instants ds.
InitLoaded(ds) ==
  /\ clock = 1
  /\ report = InitReport
  /\ error = NULL
  /\ db = [version |-> DB_VERSION, stores |-> {STORE_NAME}, created |-> 0,
           records |-> [k \in DOMAIN ds |-> serializeReport(WithId(ArchivedReport(ds[k]), k))]]
  /\ pastReports = [k \in DOMAIN ds |-> deserializeReport(db.records[k])]
  /\ searchDate = NULL
  /\ shown = pastReports
  /\ txQueue = <<>>
  /\ calls = <<>>
  /\ load = "done"
  /\ pdfs = 0
  /\ wire = NULL
  /\ restored = NULL

\* ------------------------------------------------- browsing the archive
InitFilter == \E ds \in SeqsUpTo(Instants, MaxPast) : InitLoaded(ds)

NextFilter ==
  \/ \E v \in {NULL} \cup {Dayjs(t) : t \in Instants} : SetSearchDate(v)
  \/ \E k \in 1 .. MaxPast : SelectPastReport(k)

SpecFilter == InitFilter /\ [][NextFilter]_vars

\* ------------------------------------------------- editing the task list
InitEdit == InitLoaded(<<1>>)

EditTaskFields ==
  {<<"startTime", NULL>>, <<"startTime", Dayjs(1)>>,
   <<"description", "">>, <<"description", "d">>,
   <<"problems", "">>, <<"problems", "p">>}

EditIndexes == -1 .. MaxTasks

NextEdit ==
  \/ addTask
  \/ \E i \in EditIndexes : removeTask(i)
  \/ \E i \in EditIndexes, fv \in EditTaskFields : updateTask(i, fv[1], fv[2])
  \/ SelectPastReport(1)

SpecEdit == InitEdit /\ [][NextEdit]_vars

\* ------------------------------------------------- marshalling any report
CodecTimes == {NULL, Dayjs(NumDays * DayLen - 1)}

CodecTasks ==
  [startTime : CodecTimes, endTime : CodecTimes, description : {"d"}]
    \cup [startTime : CodecTimes, endTime : CodecTimes, description : {"d"}, problems : {"p"}]

CodecReports ==
  LET plain == [date : {Dayjs(t) : t \in Instants}, firstName : {"", "a"}, lastName : {"b"},
                arrivalTime : CodecTimes, departureTime : CodecTimes,
                tasks : SeqsUpTo(CodecTasks, MaxCodecTasks), plannedTasks : {"p"}]
  IN  plain \cup {WithId(r, 1) : r \in plain}

InitCodec ==
  /\ clock = 1
  /\ report \in CodecReports
  /\ error = NULL
  /\ pastReports = <<>>
  /\ searchDate = NULL
  /\ shown = <<>>
  /\ db \in InitDBs
  /\ txQueue = <<>>
  /\ calls = <<>>
  /\ load = "open"
  /\ pdfs = 0
  /\ wire = NULL
  /\ restored = NULL

NextCodec ==
  \/ CodecSerialize
  \/ CodecDeserialize

SpecCodec == InitCodec /\ [][NextCodec]_vars

\* ================================================================ claims
\* A report is submittable when its names and its arrival and departure times
\* are present and every task has both times and a description.
Submittable(r) ==
  /\ r.firstName # ""
  /\ r.lastName # ""
  /\ r.arrivalTime # NULL
  /\ r.departureTime # NULL
  /\ \A k \in DOMAIN r.tasks :
       /\ r.tasks[k].startTime # NULL
       /\ r.tasks[k].endTime # NULL
       /\ r.tasks[k].description # ""

\* C1 -- Validation gating.  A generatePDF invoked on a report that is not
\* submittable is rejected: it sets an error message and starts no call, adds
\* no request and no record to the store and leaves pastReports as it was.
\* And every record of the store, every queued add and every export under
\* way carries a submittable report.
C1_ValidationGating ==
  /\ [][(GeneratePDF /\ ~Submittable(report)) =>
          /\ error' \in {MsgName, MsgTimes, MsgTasks}
          /\ calls' = calls
          /\ txQueue' = txQueue
          /\ db' = db
          /\ pastReports' = pastReports]_vars
  /\ [](/\ \A k \in DOMAIN db.records : Submittable(deserializeReport(db.records[k]))
        /\ \A k \in DOMAIN txQueue :
             txQueue[k].op = "add" => Submittable(deserializeReport(txQueue[k].value))
        /\ \A i \in DOMAIN calls : Submittable(calls[i].report))

\* An export rejected for its missing first name when the store already
\* holds a record and a later export is still under way.
C1_Witness ==
  /\ error = MsgName
  /\ report.firstName = ""
  /\ Len(report.tasks) >= 2
  /\ db.records # <<>>
  /\ \E i \in DOMAIN calls : calls[i].pc = "open"

\* The reports of the exports whose add succeeded, in the order they were
\* inserted, each with the id it was given.
SavedReports ==
  LET ok == SelectSeq(calls, LAMBDA c : c.add = "success")
  IN  [k \in DOMAIN ok |-> WithId(ok[k].report, ok[k].id)]

\* What loadReports reads back from the store.
LoadedReports == [k \in DOMAIN db.records |-> deserializeReport(db.records[k])]

\* C2 -- Identity assignment.  Successive saves are given strictly increasing,
\* hence unique, identities: a later save has a larger id than every earlier
\* one.
C2_IdentityIncreasing ==
  \A i, j \in DOMAIN calls :
    (i < j /\ calls[i].add # "none" /\ calls[j].add # "none")
      => calls[i].id < calls[j].id

\* An export is finished and its write to the store has failed.
SaveFailed(i) == i \in DOMAIN calls /\ calls[i].pc = "done" /\ calls[i].add = "error"

\* C3 -- Failed write.  When an export ends with its add failed, pastReports
\* has gained no entry from it and the error state shows "Failed to save
\* report offline".
C3_FailedWriteKeepsState ==
  [][\A i \in 1 .. MaxSaves :
       (~SaveFailed(i) /\ SaveFailed(i)') =>
          (~calls'[i].appended /\ error' = MsgSave)]_vars

\* C4 -- Failed load.  When the initial load fails (initDB rejects or getAll
\* errors), the error state is set to a message and pastReports keeps its
\* value.
C4_FailedLoadSurfaced ==
  [][(LoadOpenFailed \/ LoadFailed) =>
       (error' # NULL /\ pastReports' = pastReports)]_vars

\* C6 -- Save then reload.  Loading all records and deserializing them yields
\* exactly the reports of the successful saves, each with its id, in
\* insertion order.
C6_ReloadYieldsSaves == LoadedReports = SavedReports

\* C8 -- Opening the store is idempotent.  A successful initDB leaves the
\* records as they are, creates the collection only when it does not exist
\* yet, and the collection is never created a second time.
C8_OpenIdempotent ==
  /\ [][(LoadOpened \/ \E i \in 1 .. MaxSaves : GenOpened(i)) =>
          /\ db'.records = db.records
          /\ STORE_NAME \in db'.stores
          /\ db'.created # db.created => STORE_NAME \notin db.stores]_vars
  /\ [](db.created <= 1)

\* The third open of a database that was created by the first one and that
\* holds a record by now.
C8_Witness ==
  /\ db.created = 1
  /\ db.records # <<>>
  /\ Len(calls) >= 2
  /\ calls[2].add = "pending"

\* C9 -- Ordering of a save.  An export has appended to pastReports and saved
\* its document only after the store reported the outcome of its add.
C9_AwaitsOutcome ==
  \A i \in DOMAIN calls :
    (calls[i].pc = "done" /\ calls[i].appended) => calls[i].add \in {"success", "error"}

\* The temporal fields of a report or of a task.
ReportTimes == {"arrivalTime", "departureTime"}

TaskTimes == {"startTime", "endTime"}

\* C5 -- Round trip.  The serialized report has a null exactly where the
\* report has one and an ISO string elsewhere, copies the scalar fields, the
\* id and the number of tasks; and the report read back from it is equal to
\* the report, field by field and task by task.
C5_RoundTrip ==
  /\ wire # NULL =>
       /\ DOMAIN wire = DOMAIN report
       /\ wire.date.kind = "string"
       /\ \A f \in ReportTimes :
            IF report[f] = NULL THEN wire[f] = NULL ELSE wire[f].kind = "string"
       /\ \A f \in DOMAIN report \ ({"date", "tasks"} \cup ReportTimes) : wire[f] = report[f]
       /\ Len(wire.tasks) = Len(report.tasks)
       /\ \A k \in DOMAIN report.tasks :
            /\ DOMAIN wire.tasks[k] = DOMAIN report.tasks[k]
            /\ \A f \in TaskTimes :
                 IF report.tasks[k][f] = NULL THEN wire.tasks[k][f] = NULL
                 ELSE wire.tasks[k][f].kind = "string"
            /\ \A f \in DOMAIN report.tasks[k] \ TaskTimes :
                 wire.tasks[k][f] = report.tasks[k][f]
  /\ restored # NULL => restored = report

\* A report with an id, a null arrival time, a date that is not at midnight
\* and two tasks, the first without problems and without a start time, has
\* been serialized and read back.
C5_Witness ==
  /\ restored # NULL
  /\ "id" \in DOMAIN report
  /\ report.arrivalTime = NULL
  /\ report.departureTime # NULL
  /\ report.date.ms % DayLen # 0
  /\ Len(report.tasks) = 2
  /\ "problems" \notin DOMAIN report.tasks[1]
  /\ report.tasks[1].startTime = NULL
  /\ report.tasks[2].endTime # NULL

\* The calendar day, in local time, an instant falls on.
CalendarDay(d) == (d.ms + TzOffset) \div DayLen

\* C7 -- Filter of the past reports list.  Without a search date the list
\* shows pastReports unchanged; with one it shows exactly the reports whose
\* date falls on the calendar day of the search date, in their order.
C7_FilterByDay ==
  shown = IF searchDate = NULL THEN pastReports
          ELSE SelectSeq(pastReports,
                         LAMBDA r : CalendarDay(r.date) = CalendarDay(searchDate))

\* A search that keeps the second of two reports, dated on the day searched
\* at another time of day, and drops the first.
C7_Witness ==
  /\ searchDate # NULL
  /\ Len(pastReports) = 2
  /\ shown = <<pastReports[2]>>
  /\ pastReports[2].date # searchDate
  /\ pastReports[1].date.ms \div DayLen = searchDate.ms \div DayLen

\* What the three task operations leave alone: the other fields of the
\* report, pastReports, the store and the rest of the state.
TaskEditFrame ==
  /\ DOMAIN report' = DOMAIN report
  /\ \A f \in DOMAIN report \ {"tasks"} : report'[f] = report[f]
  /\ pastReports' = pastReports
  /\ shown' = shown
  /\ db' = db
  /\ txQueue' = txQueue
  /\ error' = error
  /\ searchDate' = searchDate

InRange(i) == 0 <= i /\ i < Len(report.tasks)

\* C10 -- Task list editing.  addTask appends one empty task and keeps the
\* others in place; removeTask(i) removes the task at index i alone, and
\* nothing when i is out of range; updateTask(i, field, v) changes that field
\* of the task at index i alone; none changes anything else.
C10_TaskEdits ==
  [][/\ addTask =>
          /\ Len(report'.tasks) = Len(report.tasks) + 1
          /\ SubSeq(report'.tasks, 1, Len(report.tasks)) = report.tasks
          /\ report'.tasks[Len(report'.tasks)].startTime = NULL
          /\ report'.tasks[Len(report'.tasks)].endTime = NULL
          /\ report'.tasks[Len(report'.tasks)].description = ""
          /\ TaskEditFrame
     /\ \A i \in EditIndexes :
          removeTask(i) =>
            /\ report'.tasks =
                 IF InRange(i)
                 THEN SubSeq(report.tasks, 1, i) \o SubSeq(report.tasks, i + 2, Len(report.tasks))
                 ELSE report.tasks
            /\ TaskEditFrame
     /\ \A i \in EditIndexes, fv \in EditTaskFields :
          updateTask(i, fv[1], fv[2]) =>
            /\ Len(report'.tasks) = Len(report.tasks)
            /\ \A k \in DOMAIN report.tasks :
                 IF k - 1 = i
                 THEN /\ report'.tasks[k][fv[1]] = fv[2]
                      /\ DOMAIN report'.tasks[k] = DOMAIN report.tasks[k]
                      /\ \A f \in DOMAIN report.tasks[k] \ {fv[1]} :
                           report'.tasks[k][f] = report.tasks[k][f]
                 ELSE report'.tasks[k] = report.tasks[k]
            /\ TaskEditFrame]_vars

\* The archived report was selected, its task removed, and three tasks were
\* added, of which the last was filled in and a middle one then removed.
C10_Witness ==
  /\ "id" \in DOMAIN report
  /\ report.firstName = "a"
  /\ Len(report.tasks) = 2
  /\ report.tasks[1] = EmptyTask
  /\ report.tasks[2].problems = "p"
  /\ report.tasks[2].startTime = Dayjs(1)
  /\ report.tasks[2].endTime = NULL
  /\ pastReports # <<>>

\* No storage operation is pending: the load has ended, every export under
\* way has got its database and the store has answered every request.
Quiescent ==
  /\ load \in {"done", "failed"}
  /\ txQueue = <<>>
  /\ \A i \in DOMAIN calls : calls[i].pc = "done"

Range(seq) == {seq[k] : k \in DOMAIN seq}

\* C11 -- Cache coherence.  Once no storage operation is pending, pastReports
\* holds exactly the deserialized records of the store: every persisted
\* report is in it and it holds no report the store does not hold.
C11_CacheCoherent == Quiescent => Range(pastReports) = Range(LoadedReports)

\* The calls of generatePDF that have run to their end.
DoneCalls == {i \in DOMAIN calls : calls[i].pc = "done"}

\* C12 -- Export gating.  A generatePDF whose validation fails starts no call
\* and saves no document; one whose validation passes starts one call, and
\* that call saves the document exactly once, when it ends, whether its write
\* to the store succeeded, failed or never started; no document is saved
\* otherwise, and every call that was started does end.
C12_ExportGating ==
  /\ [][/\ (GeneratePDF /\ ~Submittable(report)) => (calls' = calls /\ pdfs' = pdfs)
        /\ (GeneratePDF /\ Submittable(report)) =>
              (Len(calls') = Len(calls) + 1 /\ pdfs' = pdfs)
        /\ pdfs' = pdfs + Cardinality(DoneCalls' \ DoneCalls)
        /\ DoneCalls \subseteq DoneCalls']_vars
  /\ [](pdfs = Cardinality(DoneCalls))
  /\ \A i \in 1 .. MaxSaves : [](i \in DOMAIN calls => <>(i \in DoneCalls))

\* Two documents were saved, by an export whose add failed and by one that
\* got no database, and a third click was then rejected by the validation.
C12_Witness ==
  /\ pdfs = 2
  /\ Len(calls) = 2
  /\ calls[1].add = "error"
  /\ calls[2].pc = "done"
  /\ calls[2].add = "none"
  /\ error = MsgName
  /\ ~Submittable(report)

====
